---- MODULE Spec2Model ----
(***************************************************************************)
(* Model of the refrigerator monitoring core of MqttDashboard:             *)
(*   - TemperatureAnalyzer (services/temperature_analyzer.py)              *)
(*   - DataManager (services/data_manager.py) with the hourly persistence  *)
(*     policy of utils/time_utils.py and the storage calls it makes        *)
(*   - HeartbeatMonitor (services/heartbeat_monitor.py)                    *)
(*   - MessageHandler.parse_sensor_data and the sensor handler of          *)
(*     MQTTClient (mqtt/message_handler.py, mqtt/mqtt_client.py)           *)
(*                                                                         *)
(* Units.  Temperatures are integers in hundredths of a degree Celsius     *)
(* (3.0 C = 300).  A mean (the baseline) is kept as the exact fraction     *)
(* <<numerator, denominator>> of hundredths, so that comparisons against   *)
(* it are the comparisons the code makes on the quotient.  Times are       *)
(* integer seconds.  A Python value that may be None is a sequence of      *)
(* length at most one: <<>> is None, <<v>> is the value v.                 *)
(***************************************************************************)
EXTENDS Integers, Sequences, FiniteSets, TLC

VARIABLES
    now,                    \* the clock read by get_bolivia_now()
    \* ---- TemperatureAnalyzer ----
    readings,               \* self.readings: deque(maxlen=120) of [temperature, timestamp]
    baseline_temp,          \* self.baseline_temp: None or a fraction
    last_alert,             \* self.last_alert: None or an alert kind
    alert_start_time,       \* self.alert_start_time: None or a time
    consecutive_increases,  \* self.consecutive_increases
    consecutive_decreases,  \* self.consecutive_decreases
    \* ---- DataManager ----
    current_data,           \* self.current_data (with its 'analysis' entry)
    total_readings_received,\* self.total_readings_received
    temperature_alert,      \* verdicts emitted on the temperature_alert signal, in order
    new_data_available,     \* number of emissions of the new_data_available signal
    device_status,          \* last-known device record kept by db_manager.update_device_data
    device_updates,         \* number of calls of db_manager.update_device_data
    last_save_time,         \* self.last_save_time: None or a time
    total_readings_saved,   \* self.total_readings_saved
    data_saved_to_db,       \* payloads emitted on the data_saved_to_db signal, in order
    temperature_readings,   \* rows of the temperature_readings table, in insertion order
    save_calls,             \* number of calls of db_manager.save_temperature_reading
    save_checks,            \* number of runs of the save timer's callback
    should_save,            \* None, or the last should_save_reading call: argument, clock, result
    \* ---- HeartbeatMonitor ----
    last_heartbeat_time,    \* self.last_heartbeat_time: None or a time
    is_online,              \* self.is_online
    device_connected,       \* number of emissions of the device_connected signal
    device_disconnected,    \* number of emissions of the device_disconnected signal
    status,                 \* None, or the dict get_status returned last
    \* ---- MQTTClient ----
    sensor_data_received,   \* dicts emitted on the sensor_data_received signal, in order
    sensor_messages,        \* number of runs of _handle_sensor_data
    connected,              \* self.connected
    connection_status_changed, \* values emitted on the connection_status_changed signal, in order
    subscriptions,          \* (topic, qos) pairs passed to self.client.subscribe, in order
    connect_calls,          \* number of calls of self.client.connect
    broker_callback         \* None, or the last connection callback paho ran: its name and rc

analyzer_vars == <<readings, baseline_temp, last_alert, alert_start_time,
                   consecutive_increases, consecutive_decreases>>
manager_vars  == <<current_data, total_readings_received, temperature_alert,
                   new_data_available, device_status>>
save_vars     == <<last_save_time, total_readings_saved, data_saved_to_db,
                   temperature_readings, save_calls>>
monitor_vars  == <<last_heartbeat_time, is_online, device_connected, device_disconnected>>
session_vars  == <<connected, connection_status_changed, subscriptions, connect_calls,
                   broker_callback>>
mqtt_vars     == <<sensor_data_received, sensor_messages, session_vars>>
vars == <<now, analyzer_vars, manager_vars, device_updates, save_vars, save_checks,
          should_save, monitor_vars, status, mqtt_vars>>

---------------------------------------------------------------------------
(* Python None / optional values *)
None == <<>>
Some(v) == <<v>>
Val(o) == o[1]

(* Exact fractions n/d with d > 0 *)
Frac(n, d) == <<n, d>>
Num(q) == q[1]
Den(q) == q[2]
FracEq(p, q) == Num(p) * Den(q) = Num(q) * Den(p)
Abs(x) == IF x < 0 THEN -x ELSE x

RECURSIVE SumTemps(_)
SumTemps(rs) == IF rs = <<>> THEN 0 ELSE rs[1].temperature + SumTemps(Tail(rs))

---------------------------------------------------------------------------
(* config/config.py, in hundredths of a degree and in seconds *)
TEMP_ALERT_RAPID_CHANGE == 300
TEMP_ALERT_SLOW_INCREASE == 150
TEMP_NORMAL_RANGE_MIN == -500
TEMP_NORMAL_RANGE_MAX == 800
HEARTBEAT_TIMEOUT == 6

(* TemperatureAlertType *)
TemperatureAlertType ==
    {"NONE", "DOOR_OPENING", "CRITICAL_INCREASE", "CRITICAL_DECREASE", "OUT_OF_RANGE"}

(* deque(maxlen=120) *)
Maxlen == 120

---------------------------------------------------------------------------
(***************************************************************************)
(* TemperatureAnalyzer.  The object is the record                          *)
(*   [readings, baseline_temp, last_alert, alert_start_time,               *)
(*    consecutive_increases, consecutive_decreases];                       *)
(* a method is an operator from the object (and its arguments) to          *)
(*   [self |-> the object after the call, ret |-> the returned value].     *)
(***************************************************************************)

(* Variant of the deque: nothing is ever dropped *)
DequeAppend_unbounded(rs, r) == Append(rs, r)

(* deque.append on a deque with maxlen: drops the leftmost item when full *)
DequeAppend(rs, r) ==
    IF Len(rs) >= Maxlen THEN Append(Tail(rs), r) ELSE Append(rs, r)

(* list(self.readings)[-20:] *)
LastN(rs, n) == IF Len(rs) <= n THEN rs ELSE SubSeq(rs, Len(rs) - n + 1, Len(rs))

(* [r for r in self.readings if r.timestamp >= t] *)
Since(rs, t) == SelectSeq(rs, LAMBDA r: r.timestamp >= t)

(* round(x, 2) of a fraction of hundredths: nearest hundredth, ties to even *)
Round2(q) ==
    LET f == Num(q) \div Den(q)
        r == Num(q) - f * Den(q)
    IN  IF 2 * r < Den(q) THEN f
        ELSE IF 2 * r > Den(q) THEN f + 1
        ELSE IF f % 2 = 0 THEN f ELSE f + 1

(* Python truthiness of self.baseline_temp: None and 0.0 are false *)
Truthy(b) == b # None /\ Num(Val(b)) # 0

create_result(self, alert_type, is_recovering) ==
    LET current_temp == IF self.readings # <<>>
                        THEN self.readings[Len(self.readings)].temperature ELSE 0
        temp_change == IF Truthy(self.baseline_temp)
                       THEN Frac(current_temp * Den(Val(self.baseline_temp))
                                   - Num(Val(self.baseline_temp)),
                                 Den(Val(self.baseline_temp)))
                       ELSE Frac(0, 1)
    IN  [self |-> [self EXCEPT !.last_alert = Some(alert_type)],
         ret  |-> [alert_type |-> alert_type,
                   current_temp |-> current_temp,
                   baseline_temp |-> IF Truthy(self.baseline_temp)
                                     THEN Some(Round2(Val(self.baseline_temp))) ELSE None,
                   temp_change |-> Round2(temp_change),
                   is_recovering |-> is_recovering,
                   consecutive_increases |-> self.consecutive_increases,
                   consecutive_decreases |-> self.consecutive_decreases]]

(* Variant of update_baseline: the mean is always taken over the whole window *)
update_baseline_all(self) ==
    IF Len(self.readings) >= 20 /\ self.last_alert # None /\ Val(self.last_alert) # "NONE"
    THEN self
    ELSE IF Len(self.readings) > 0
         THEN [self EXCEPT !.baseline_temp =
                   Some(Frac(SumTemps(self.readings), Len(self.readings)))]
         ELSE self

update_baseline(self) ==
    IF Len(self.readings) < 20
    THEN IF Len(self.readings) > 0
         THEN [self EXCEPT !.baseline_temp =
                   Some(Frac(SumTemps(self.readings), Len(self.readings)))]
         ELSE self
    ELSE IF self.last_alert # None /\ Val(self.last_alert) # "NONE"
         THEN self
         ELSE [self EXCEPT !.baseline_temp =
                   Some(Frac(SumTemps(LastN(self.readings, 20)),
                             Len(LastN(self.readings, 20))))]

(* Variant of check_rapid_change: the threshold test is >= instead of > *)
check_rapid_change_ge(self, current_temp, t) ==
    LET old_readings == Since(self.readings, t - 300)
    IN  IF Len(old_readings) < 5
        THEN [self |-> self, ret |-> None]
        ELSE IF current_temp - old_readings[1].temperature >= TEMP_ALERT_RAPID_CHANGE
             THEN LET s1 == IF self.last_alert # Some("DOOR_OPENING")
                            THEN [self EXCEPT !.alert_start_time = Some(t)] ELSE self
                      res == create_result(s1, "DOOR_OPENING", FALSE)
                  IN  [self |-> res.self, ret |-> Some(res.ret)]
             ELSE [self |-> self, ret |-> None]

(* Variant of check_rapid_change: compares against the slow-increase threshold *)
check_rapid_change_slow(self, current_temp, t) ==
    LET old_readings == Since(self.readings, t - 300)
    IN  IF Len(old_readings) < 5
        THEN [self |-> self, ret |-> None]
        ELSE IF current_temp - old_readings[1].temperature > TEMP_ALERT_SLOW_INCREASE
             THEN LET s1 == IF self.last_alert # Some("DOOR_OPENING")
                            THEN [self EXCEPT !.alert_start_time = Some(t)] ELSE self
                      res == create_result(s1, "DOOR_OPENING", FALSE)
                  IN  [self |-> res.self, ret |-> Some(res.ret)]
             ELSE [self |-> self, ret |-> None]

(* Variant of check_rapid_change: a door opening zeroes both counters *)
check_rapid_change_reset(self, current_temp, t) ==
    LET old_readings == Since(self.readings, t - 300)
    IN  IF Len(old_readings) < 5
        THEN [self |-> self, ret |-> None]
        ELSE IF current_temp - old_readings[1].temperature > TEMP_ALERT_RAPID_CHANGE
             THEN LET s1 == IF self.last_alert # Some("DOOR_OPENING")
                            THEN [self EXCEPT !.alert_start_time = Some(t)] ELSE self
                      s2 == [s1 EXCEPT !.consecutive_increases = 0,
                                       !.consecutive_decreases = 0]
                      res == create_result(s2, "DOOR_OPENING", FALSE)
                  IN  [self |-> res.self, ret |-> Some(res.ret)]
             ELSE [self |-> self, ret |-> None]

(* Returns [self, ret] with ret = None when the check does not fire *)
check_rapid_change(self, current_temp, t) ==
    LET old_readings == Since(self.readings, t - 300)
    IN  IF Len(old_readings) < 5
        THEN [self |-> self, ret |-> None]
        ELSE IF current_temp - old_readings[1].temperature > TEMP_ALERT_RAPID_CHANGE
             THEN LET s1 == IF self.last_alert # Some("DOOR_OPENING")
                            THEN [self EXCEPT !.alert_start_time = Some(t)] ELSE self
                      res == create_result(s1, "DOOR_OPENING", FALSE)
                  IN  [self |-> res.self, ret |-> Some(res.ret)]
             ELSE [self |-> self, ret |-> None]

(* Variant of check_gradual_change: the magnitude alone decides, the
   consecutive counters are not consulted *)
check_gradual_change_nocount(self, current_temp, temp_change, t) ==
    LET n == Len(self.readings)
        s1 == IF n >= 2
              THEN LET prev_temp == self.readings[n - 1].temperature
                   IN  IF current_temp > prev_temp
                       THEN [self EXCEPT
                               !.consecutive_increases = self.consecutive_increases + 1,
                               !.consecutive_decreases = 0]
                       ELSE IF current_temp < prev_temp
                       THEN [self EXCEPT
                               !.consecutive_decreases = self.consecutive_decreases + 1,
                               !.consecutive_increases = 0]
                       ELSE self
              ELSE self
        old_readings == Since(self.readings, t - 600)
    IN  IF Len(old_readings) < 10
        THEN [self |-> s1, ret |-> None]
        ELSE LET temp_change_10min == current_temp - old_readings[1].temperature
             IN  IF temp_change_10min > TEMP_ALERT_SLOW_INCREASE
                 THEN LET s2 == IF s1.last_alert # Some("CRITICAL_INCREASE")
                                THEN [s1 EXCEPT !.alert_start_time = Some(t)] ELSE s1
                          res == create_result(s2, "CRITICAL_INCREASE", FALSE)
                      IN  [self |-> res.self, ret |-> Some(res.ret)]
                 ELSE IF temp_change_10min < -TEMP_ALERT_SLOW_INCREASE
                 THEN LET s2 == IF s1.last_alert # Some("CRITICAL_DECREASE")
                                THEN [s1 EXCEPT !.alert_start_time = Some(t)] ELSE s1
                          res == create_result(s2, "CRITICAL_DECREASE", FALSE)
                      IN  [self |-> res.self, ret |-> Some(res.ret)]
                 ELSE [self |-> s1, ret |-> None]

(* Variant of check_gradual_change: one change in the direction is enough *)
check_gradual_change_once(self, current_temp, temp_change, t) ==
    LET n == Len(self.readings)
        s1 == IF n >= 2
              THEN LET prev_temp == self.readings[n - 1].temperature
                   IN  IF current_temp > prev_temp
                       THEN [self EXCEPT
                               !.consecutive_increases = self.consecutive_increases + 1,
                               !.consecutive_decreases = 0]
                       ELSE IF current_temp < prev_temp
                       THEN [self EXCEPT
                               !.consecutive_decreases = self.consecutive_decreases + 1,
                               !.consecutive_increases = 0]
                       ELSE self
              ELSE self
        old_readings == Since(self.readings, t - 600)
    IN  IF Len(old_readings) < 10
        THEN [self |-> s1, ret |-> None]
        ELSE LET temp_change_10min == current_temp - old_readings[1].temperature
             IN  IF temp_change_10min > TEMP_ALERT_SLOW_INCREASE
                    /\ s1.consecutive_increases >= 1
                 THEN LET s2 == IF s1.last_alert # Some("CRITICAL_INCREASE")
                                THEN [s1 EXCEPT !.alert_start_time = Some(t)] ELSE s1
                          res == create_result(s2, "CRITICAL_INCREASE", FALSE)
                      IN  [self |-> res.self, ret |-> Some(res.ret)]
                 ELSE IF temp_change_10min < -TEMP_ALERT_SLOW_INCREASE
                         /\ s1.consecutive_decreases >= 1
                 THEN LET s2 == IF s1.last_alert # Some("CRITICAL_DECREASE")
                                THEN [s1 EXCEPT !.alert_start_time = Some(t)] ELSE s1
                          res == create_result(s2, "CRITICAL_DECREASE", FALSE)
                      IN  [self |-> res.self, ret |-> Some(res.ret)]
                 ELSE [self |-> s1, ret |-> None]

check_gradual_change(self, current_temp, temp_change, t) ==
    LET n == Len(self.readings)
        s1 == IF n >= 2
              THEN LET prev_temp == self.readings[n - 1].temperature
                   IN  IF current_temp > prev_temp
                       THEN [self EXCEPT
                               !.consecutive_increases = self.consecutive_increases + 1,
                               !.consecutive_decreases = 0]
                       ELSE IF current_temp < prev_temp
                       THEN [self EXCEPT
                               !.consecutive_decreases = self.consecutive_decreases + 1,
                               !.consecutive_increases = 0]
                       ELSE self
              ELSE self
        old_readings == Since(self.readings, t - 600)
    IN  IF Len(old_readings) < 10
        THEN [self |-> s1, ret |-> None]
        ELSE LET temp_change_10min == current_temp - old_readings[1].temperature
             IN  IF temp_change_10min > TEMP_ALERT_SLOW_INCREASE
                    /\ s1.consecutive_increases >= 5
                 THEN LET s2 == IF s1.last_alert # Some("CRITICAL_INCREASE")
                                THEN [s1 EXCEPT !.alert_start_time = Some(t)] ELSE s1
                          res == create_result(s2, "CRITICAL_INCREASE", FALSE)
                      IN  [self |-> res.self, ret |-> Some(res.ret)]
                 ELSE IF temp_change_10min < -TEMP_ALERT_SLOW_INCREASE
                         /\ s1.consecutive_decreases >= 5
                 THEN LET s2 == IF s1.last_alert # Some("CRITICAL_DECREASE")
                                THEN [s1 EXCEPT !.alert_start_time = Some(t)] ELSE s1
                          res == create_result(s2, "CRITICAL_DECREASE", FALSE)
                      IN  [self |-> res.self, ret |-> Some(res.ret)]
                 ELSE [self |-> s1, ret |-> None]

(* Variant of check_recovery: only the critical kinds recover *)
check_recovery_critical_only(self, current_temp, temp_change) ==
    IF self.last_alert \in {Some("CRITICAL_INCREASE"), Some("CRITICAL_DECREASE")}
          /\ Abs(Num(temp_change)) < 100 * Den(temp_change)
    THEN LET s1 == [self EXCEPT !.consecutive_increases = 0,
                                !.consecutive_decreases = 0,
                                !.alert_start_time = None]
             res == create_result(s1, "NONE", TRUE)
         IN  [self |-> res.self, ret |-> Some(res.ret)]
    ELSE [self |-> self, ret |-> None]

(* Variant of check_recovery: an out-of-range alert recovers like a door
   opening *)
check_recovery_any(self, current_temp, temp_change) ==
    IF self.last_alert \in {Some("DOOR_OPENING"), Some("OUT_OF_RANGE")}
          /\ Abs(Num(temp_change)) < 50 * Den(temp_change)
    THEN LET s1 == [self EXCEPT !.consecutive_increases = 0,
                                !.alert_start_time = None]
             res == create_result(s1, "NONE", TRUE)
         IN  [self |-> res.self, ret |-> Some(res.ret)]
    ELSE IF self.last_alert \in {Some("CRITICAL_INCREASE"), Some("CRITICAL_DECREASE")}
          /\ Abs(Num(temp_change)) < 100 * Den(temp_change)
    THEN LET s1 == [self EXCEPT !.consecutive_increases = 0,
                                !.consecutive_decreases = 0,
                                !.alert_start_time = None]
             res == create_result(s1, "NONE", TRUE)
         IN  [self |-> res.self, ret |-> Some(res.ret)]
    ELSE [self |-> self, ret |-> None]

(* temp_change is the fraction current_temp - baseline_temp *)
check_recovery(self, current_temp, temp_change) ==
    IF self.last_alert = Some("DOOR_OPENING")
          /\ Abs(Num(temp_change)) < 50 * Den(temp_change)
    THEN LET s1 == [self EXCEPT !.consecutive_increases = 0,
                                !.alert_start_time = None]
             res == create_result(s1, "NONE", TRUE)
         IN  [self |-> res.self, ret |-> Some(res.ret)]
    ELSE IF self.last_alert \in {Some("CRITICAL_INCREASE"), Some("CRITICAL_DECREASE")}
          /\ Abs(Num(temp_change)) < 100 * Den(temp_change)
    THEN LET s1 == [self EXCEPT !.consecutive_increases = 0,
                                !.consecutive_decreases = 0,
                                !.alert_start_time = None]
             res == create_result(s1, "NONE", TRUE)
         IN  [self |-> res.self, ret |-> Some(res.ret)]
    ELSE [self |-> self, ret |-> None]

(* Variant of out_of_range: the bounds themselves count as out of range *)
out_of_range_incl(current_temp) ==
    current_temp <= TEMP_NORMAL_RANGE_MIN \/ current_temp >= TEMP_NORMAL_RANGE_MAX

(* lines 128-139: the reading is outside the normal operating band *)
out_of_range(current_temp) ==
    current_temp < TEMP_NORMAL_RANGE_MIN \/ current_temp > TEMP_NORMAL_RANGE_MAX

analyze_pattern(self, current_temp, t) ==
    IF self.baseline_temp = None
    THEN create_result(self, "NONE", FALSE)
    ELSE
    LET b == Val(self.baseline_temp)
        temp_change == Frac(current_temp * Den(b) - Num(b), Den(b))
    IN  IF out_of_range(current_temp)
        THEN create_result(self, "OUT_OF_RANGE", FALSE)
        ELSE
        LET rapid_change == check_rapid_change(self, current_temp, t)
        IN  IF rapid_change.ret # None
            THEN [self |-> rapid_change.self, ret |-> Val(rapid_change.ret)]
            ELSE
            LET gradual_change ==
                    check_gradual_change(rapid_change.self, current_temp, temp_change, t)
            IN  IF gradual_change.ret # None
                THEN [self |-> gradual_change.self, ret |-> Val(gradual_change.ret)]
                ELSE
                LET s3 == gradual_change.self
                    recovery == IF s3.last_alert # None /\ Val(s3.last_alert) # "NONE"
                                THEN check_recovery(s3, current_temp, temp_change)
                                ELSE [self |-> s3, ret |-> None]
                IN  IF recovery.ret # None
                    THEN [self |-> recovery.self, ret |-> Val(recovery.ret)]
                    ELSE create_result(
                            [recovery.self EXCEPT !.consecutive_increases = 0,
                                                  !.consecutive_decreases = 0],
                            "NONE", FALSE)

(* Variant of add_reading: the warm-up ends one reading earlier *)
add_reading_short(self, temperature, t) ==
    LET s1 == [self EXCEPT !.readings =
                   DequeAppend(self.readings, [temperature |-> temperature, timestamp |-> t])]
    IN  IF Len(s1.readings) < 4
        THEN create_result(update_baseline(s1), "NONE", FALSE)
        ELSE analyze_pattern(update_baseline(s1), temperature, t)

(* add_reading at clock value t *)
add_reading(self, temperature, t) ==
    LET s1 == [self EXCEPT !.readings =
                   DequeAppend(self.readings, [temperature |-> temperature, timestamp |-> t])]
    IN  IF Len(s1.readings) < 5
        THEN create_result(update_baseline(s1), "NONE", FALSE)
        ELSE analyze_pattern(update_baseline(s1), temperature, t)

(* The analyzer object held in the variables *)
Analyzer ==
    [readings |-> readings, baseline_temp |-> baseline_temp, last_alert |-> last_alert,
     alert_start_time |-> alert_start_time,
     consecutive_increases |-> consecutive_increases,
     consecutive_decreases |-> consecutive_decreases]

SetAnalyzer(s) ==
    /\ readings' = s.readings
    /\ baseline_temp' = s.baseline_temp
    /\ last_alert' = s.last_alert
    /\ alert_start_time' = s.alert_start_time
    /\ consecutive_increases' = s.consecutive_increases
    /\ consecutive_decreases' = s.consecutive_decreases

---------------------------------------------------------------------------
(***************************************************************************)
(* HeartbeatMonitor.  t is the value get_bolivia_now() returns in the call. *)
(***************************************************************************)
(* Variant of register_heartbeat: device_connected is emitted on every heartbeat *)
register_heartbeat_always(t) ==
    /\ last_heartbeat_time' = Some(t)
    /\ is_online' = TRUE
    /\ device_connected' = device_connected + 1
    /\ UNCHANGED device_disconnected

register_heartbeat(t) ==
    LET was_offline == ~is_online
    IN  /\ last_heartbeat_time' = Some(t)
        /\ is_online' = TRUE
        /\ device_connected' = IF was_offline THEN device_connected + 1
                                              ELSE device_connected
        /\ UNCHANGED device_disconnected

(* Variant of check_timeout: the online flag is not consulted *)
check_timeout_any(t) ==
    IF last_heartbeat_time = None
    THEN UNCHANGED monitor_vars
    ELSE LET elapsed_seconds == t - Val(last_heartbeat_time)
         IN  IF elapsed_seconds > HEARTBEAT_TIMEOUT
             THEN /\ is_online' = FALSE
                  /\ device_disconnected' = device_disconnected + 1
                  /\ UNCHANGED <<last_heartbeat_time, device_connected>>
             ELSE UNCHANGED monitor_vars

(* Variant of check_timeout: a monitor that never heard a heartbeat reports
   a disconnect *)
check_timeout_unset(t) ==
    IF last_heartbeat_time = None
    THEN /\ device_disconnected' = device_disconnected + 1
         /\ UNCHANGED <<last_heartbeat_time, is_online, device_connected>>
    ELSE LET elapsed_seconds == t - Val(last_heartbeat_time)
         IN  IF elapsed_seconds > HEARTBEAT_TIMEOUT /\ is_online
             THEN /\ is_online' = FALSE
                  /\ device_disconnected' = device_disconnected + 1
                  /\ UNCHANGED <<last_heartbeat_time, device_connected>>
             ELSE UNCHANGED monitor_vars

(* Variant of check_timeout: the comparison with the timeout is not strict *)
check_timeout_ge(t) ==
    IF last_heartbeat_time = None
    THEN UNCHANGED monitor_vars
    ELSE LET elapsed_seconds == t - Val(last_heartbeat_time)
         IN  IF elapsed_seconds >= HEARTBEAT_TIMEOUT /\ is_online
             THEN /\ is_online' = FALSE
                  /\ device_disconnected' = device_disconnected + 1
                  /\ UNCHANGED <<last_heartbeat_time, device_connected>>
             ELSE UNCHANGED monitor_vars

(* Variant of check_timeout: the device goes offline without an event *)
check_timeout_quiet(t) ==
    IF last_heartbeat_time = None
    THEN UNCHANGED monitor_vars
    ELSE LET elapsed_seconds == t - Val(last_heartbeat_time)
         IN  IF elapsed_seconds > HEARTBEAT_TIMEOUT /\ is_online
             THEN /\ is_online' = FALSE
                  /\ UNCHANGED <<last_heartbeat_time, device_connected,
                                 device_disconnected>>
             ELSE UNCHANGED monitor_vars

check_timeout(t) ==
    IF last_heartbeat_time = None
    THEN UNCHANGED monitor_vars
    ELSE LET elapsed_seconds == t - Val(last_heartbeat_time)
         IN  IF elapsed_seconds > HEARTBEAT_TIMEOUT /\ is_online
             THEN /\ is_online' = FALSE
                  /\ device_disconnected' = device_disconnected + 1
                  /\ UNCHANGED <<last_heartbeat_time, device_connected>>
             ELSE UNCHANGED monitor_vars

(* Variant of get_status: the read derives the online flag from the presence
   of a heartbeat and stores it *)
get_status_refresh(t) ==
    IF last_heartbeat_time = None
    THEN /\ status' = Some([is_online |-> FALSE, last_heartbeat |-> None,
                            seconds_since_heartbeat |-> None])
         /\ UNCHANGED monitor_vars
    ELSE /\ status' = Some([is_online |-> TRUE,
                            last_heartbeat |-> last_heartbeat_time,
                            seconds_since_heartbeat |-> Some(t - Val(last_heartbeat_time))])
         /\ is_online' = TRUE
         /\ UNCHANGED <<last_heartbeat_time, device_connected, device_disconnected>>

(* Variant of get_status: a read that finds the device offline emits
   device_disconnected *)
get_status_emits(t) ==
    IF last_heartbeat_time = None
    THEN /\ status' = Some([is_online |-> FALSE, last_heartbeat |-> None,
                            seconds_since_heartbeat |-> None])
         /\ UNCHANGED monitor_vars
    ELSE /\ status' = Some([is_online |-> is_online,
                            last_heartbeat |-> last_heartbeat_time,
                            seconds_since_heartbeat |-> Some(t - Val(last_heartbeat_time))])
         /\ device_disconnected' = IF is_online THEN device_disconnected
                                   ELSE device_disconnected + 1
         /\ UNCHANGED <<last_heartbeat_time, is_online, device_connected>>

(* get_status: the dict it returns is kept in status *)
get_status(t) ==
    IF last_heartbeat_time = None
    THEN /\ status' = Some([is_online |-> FALSE, last_heartbeat |-> None,
                            seconds_since_heartbeat |-> None])
         /\ UNCHANGED monitor_vars
    ELSE /\ status' = Some([is_online |-> is_online,
                            last_heartbeat |-> last_heartbeat_time,
                            seconds_since_heartbeat |-> Some(t - Val(last_heartbeat_time))])
         /\ UNCHANGED monitor_vars

---------------------------------------------------------------------------
(***************************************************************************)
(* utils/time_utils.py.  A clock value is the number of seconds since      *)
(* local midnight; t is the value get_bolivia_now() returns.               *)
(***************************************************************************)
Minute(t) == (t \div 60) % 60
Second(t) == t % 60
MIN_SAVE_GAP == 3540

is_on_the_hour(t) == Minute(t) = 0 /\ Second(t) < 5

(* Variant of should_save_reading: the time since the last save is not
   consulted *)
should_save_reading_window(last, t) ==
    is_on_the_hour(t)

(* Variant of should_save_reading: a full hour is required since the last
   save *)
should_save_reading_hour(last, t) ==
    IF ~is_on_the_hour(t) THEN FALSE
    ELSE IF last = None THEN TRUE
    ELSE t - Val(last) >= 3600

(* should_save_reading(last_save_time); both clock reads of the call return t *)
should_save_reading(last, t) ==
    IF ~is_on_the_hour(t) THEN FALSE
    ELSE IF last = None THEN TRUE
    ELSE LET time_diff == t - Val(last)
         IN  time_diff >= MIN_SAVE_GAP

---------------------------------------------------------------------------
(***************************************************************************)
(* DataManager: the hourly save.  outcome is what the storage call does:   *)
(*   "saved"    the row is committed and the record returned is readable   *)
(*   "detached" the row is committed, and reading an attribute of the      *)
(*              returned record raises: save_temperature_reading returns   *)
(*              it after its session has committed and closed              *)
(*   "none"     the commit fails with an SQLAlchemyError: None is returned *)
(*   "raise"    the call raises any other exception                        *)
(***************************************************************************)
SaveOutcomes == {"saved", "detached", "none", "raise"}
StoredOutcomes == {"saved", "detached"}

(* temperature is a NOT NULL column: a row without one is never committed *)
save_temperature_reading(outcome) ==
    IF current_data.temperature = None /\ outcome \in StoredOutcomes
    THEN "none"
    ELSE outcome

(* Variant of save_to_database: the schedule is advanced before the result
   of the storage call is looked at *)
save_to_database_early(t, outcome) ==
    LET reading == save_temperature_reading(outcome)
        row == [device_id |-> current_data.device_id,
                temperature |-> current_data.temperature,
                pressure |-> current_data.pressure,
                altitude |-> current_data.altitude,
                rssi |-> current_data.rssi,
                recorded_at |-> t]
    IN  /\ save_calls' = save_calls + 1
        /\ last_save_time' = Some(t)
        /\ temperature_readings' = IF reading \in StoredOutcomes
                                   THEN Append(temperature_readings, row)
                                   ELSE temperature_readings
        /\ total_readings_saved' = IF reading \in StoredOutcomes
                                   THEN total_readings_saved + 1
                                   ELSE total_readings_saved
        /\ data_saved_to_db' = IF reading = "saved"
                               THEN Append(data_saved_to_db,
                                           [temperature |-> row.temperature,
                                            timestamp |-> row.recorded_at,
                                            total_saved |-> total_readings_saved + 1])
                               ELSE data_saved_to_db

(* Variant of save_to_database: pressure, altitude and rssi are those of the
   last reading whose device status was stored *)
save_to_database_stale(t, outcome) ==
    LET reading == save_temperature_reading(outcome)
        row == [device_id |-> current_data.device_id,
                temperature |-> current_data.temperature,
                pressure |-> IF device_status = None THEN current_data.pressure
                              ELSE Some(Val(device_status).pressure),
                altitude |-> IF device_status = None THEN current_data.altitude
                              ELSE Some(Val(device_status).altitude),
                rssi |-> IF device_status = None THEN current_data.rssi
                          ELSE Some(Val(device_status).rssi),
                recorded_at |-> t]
    IN  /\ save_calls' = save_calls + 1
        /\ temperature_readings' = IF reading \in StoredOutcomes
                                   THEN Append(temperature_readings, row)
                                   ELSE temperature_readings
        /\ last_save_time' = IF reading \in StoredOutcomes
                             THEN Some(t)
                             ELSE last_save_time
        /\ total_readings_saved' = IF reading \in StoredOutcomes
                                   THEN total_readings_saved + 1
                                   ELSE total_readings_saved
        /\ data_saved_to_db' = IF reading = "saved"
                               THEN Append(data_saved_to_db,
                                           [temperature |-> row.temperature,
                                            timestamp |-> row.recorded_at,
                                            total_saved |-> total_readings_saved + 1])
                               ELSE data_saved_to_db

(* _save_to_database at clock value t *)
save_to_database(t, outcome) ==
    LET reading == save_temperature_reading(outcome)
        row == [device_id |-> current_data.device_id,
                temperature |-> current_data.temperature,
                pressure |-> current_data.pressure,
                altitude |-> current_data.altitude,
                rssi |-> current_data.rssi,
                recorded_at |-> t]
    IN  /\ save_calls' = save_calls + 1
        /\ temperature_readings' = IF reading \in StoredOutcomes
                                   THEN Append(temperature_readings, row)
                                   ELSE temperature_readings
        /\ last_save_time' = IF reading \in StoredOutcomes
                             THEN Some(t)
                             ELSE last_save_time
        /\ total_readings_saved' = IF reading \in StoredOutcomes
                                   THEN total_readings_saved + 1
                                   ELSE total_readings_saved
        /\ data_saved_to_db' = IF reading = "saved"
                               THEN Append(data_saved_to_db,
                                           [temperature |-> row.temperature,
                                            timestamp |-> row.recorded_at,
                                            total_saved |-> total_readings_saved + 1])
                               ELSE data_saved_to_db

(* The record kept of a should_save_reading call: its argument, the clock
   value it read and what it returned *)
PolicyCall(last, t) ==
    Some([last_save_time |-> last, now |-> t, ret |-> should_save_reading(last, t)])

(* Variant of check_save_to_db: the reading is saved at every check *)
check_save_to_db_always(t, outcome) ==
    IF current_data.temperature = None
    THEN UNCHANGED <<save_vars, should_save>>
    ELSE /\ should_save' = PolicyCall(last_save_time, t)
         /\ save_to_database(t, outcome)

(* Variant of check_save_to_db: the policy is consulted whether or not a
   reading has been received *)
check_save_to_db_nodata(t, outcome) ==
    /\ should_save' = PolicyCall(last_save_time, t)
    /\ IF should_save_reading(last_save_time, t)
       THEN save_to_database(t, outcome)
       ELSE UNCHANGED save_vars

(* _check_save_to_db at clock value t *)
check_save_to_db(t, outcome) ==
    IF current_data.temperature = None
    THEN UNCHANGED <<save_vars, should_save>>
    ELSE /\ should_save' = PolicyCall(last_save_time, t)
         /\ IF should_save_reading(last_save_time, t)
            THEN save_to_database(t, outcome)
            ELSE UNCHANGED save_vars

(* force_save at clock value t *)
force_save(t, outcome) == save_to_database(t, outcome)

---------------------------------------------------------------------------
(* Bounds of the model *)
MaxReadings == 10
MaxGaps == 1
MaxClock == 24
MaxArrivals == 2
MaxSaveChecks == 5
MaxSaveCalls == 1
MaxTimerChecks == 63
MaxSensorMessages == 2
MaxWarmReadings == 5
MaxLongReadings == 123
MaxStorageReadings == 6
MaxStorageSaves == 2
MaxEpisodeReadings == 7
MaxCommitArrivals == 3
MaxSessionEvents == 5

(* Inputs.  The first reading is StartTemp; every later reading is the
   previous temperature plus a change, received some seconds after the
   previous one: <<change, seconds>>.  Steps are readings at the regular
   sampling interval, GapSteps readings received after a transmission gap. *)
StartTemps == {-20}
Steps == {<<-60, 60>>, <<60, 60>>, <<110, 60>>}
GapSteps == {<<0, 240>>}
DbOutcomes == {TRUE}
DEVICE_ID == "esp32-fridge-001"

(* Number of transmission gaps among the readings received so far *)
RECURSIVE Gaps(_)
Gaps(rs) ==
    IF Len(rs) < 2 THEN 0
    ELSE (IF rs[2].timestamp - rs[1].timestamp > 60 THEN 1 ELSE 0) + Gaps(Tail(rs))

---------------------------------------------------------------------------
(* The objects as their constructors leave them *)
Constructed ==
    /\ readings = <<>>
    /\ baseline_temp = None
    /\ last_alert = None
    /\ alert_start_time = None
    /\ consecutive_increases = 0
    /\ consecutive_decreases = 0
    /\ current_data = [device_id |-> DEVICE_ID, temperature |-> None, pressure |-> None,
                       altitude |-> None, rssi |-> None, timestamp |-> None,
                       status |-> "waiting", analysis |-> None]
    /\ total_readings_received = 0
    /\ temperature_alert = <<>>
    /\ new_data_available = 0
    /\ device_status = None
    /\ device_updates = 0
    /\ last_save_time = None
    /\ total_readings_saved = 0
    /\ data_saved_to_db = <<>>
    /\ temperature_readings = <<>>
    /\ save_calls = 0
    /\ save_checks = 0
    /\ should_save = None
    /\ last_heartbeat_time = None
    /\ is_online = FALSE
    /\ device_connected = 0
    /\ device_disconnected = 0
    /\ status = None
    /\ sensor_data_received = <<>>
    /\ sensor_messages = 0
    /\ connected = FALSE
    /\ connection_status_changed = <<>>
    /\ subscriptions = <<>>
    /\ connect_calls = 0
    /\ broker_callback = None

Init ==
    /\ now = 0
    /\ Constructed

(* Variant of process_sensor_data: a failed update of the device status
   ends the handler *)
process_sensor_data_abort(data, t, db_ok) ==
    LET res == add_reading(Analyzer, data.temperature, t)
    IN  /\ total_readings_received' = total_readings_received + 1
        /\ SetAnalyzer(res.self)
        /\ current_data' = [current_data EXCEPT
                               !.temperature = Some(data.temperature),
                               !.pressure = Some(data.pressure),
                               !.altitude = Some(data.altitude),
                               !.rssi = Some(data.rssi),
                               !.timestamp = Some(data.timestamp),
                               !.status = "normal",
                               !.analysis = Some(res.ret)]
        /\ temperature_alert' = IF res.ret.alert_type # "NONE"
                                THEN Append(temperature_alert, res.ret)
                                ELSE temperature_alert
        /\ device_status' = IF db_ok
                            THEN Some([device_id |-> data.device_id,
                                       temperature |-> data.temperature,
                                       pressure |-> data.pressure,
                                       altitude |-> data.altitude,
                                       rssi |-> data.rssi,
                                       timestamp |-> data.timestamp])
                            ELSE device_status
        /\ device_updates' = device_updates + 1
        /\ new_data_available' = IF db_ok THEN new_data_available + 1
                                 ELSE new_data_available

(* Variant of process_sensor_data: the last-known record is refreshed only
   by a reading that raises no alert *)
process_sensor_data_quiet(data, t, db_ok) ==
    LET res == add_reading(Analyzer, data.temperature, t)
        quiet == res.ret.alert_type = "NONE"
    IN  /\ total_readings_received' = total_readings_received + 1
        /\ SetAnalyzer(res.self)
        /\ current_data' = [current_data EXCEPT
                               !.temperature = Some(data.temperature),
                               !.pressure = Some(data.pressure),
                               !.altitude = Some(data.altitude),
                               !.rssi = Some(data.rssi),
                               !.timestamp = Some(data.timestamp),
                               !.status = "normal",
                               !.analysis = Some(res.ret)]
        /\ temperature_alert' = IF ~quiet
                                THEN Append(temperature_alert, res.ret)
                                ELSE temperature_alert
        /\ device_status' = IF db_ok /\ quiet
                            THEN Some([device_id |-> data.device_id,
                                       temperature |-> data.temperature,
                                       pressure |-> data.pressure,
                                       altitude |-> data.altitude,
                                       rssi |-> data.rssi,
                                       timestamp |-> data.timestamp])
                            ELSE device_status
        /\ device_updates' = IF quiet THEN device_updates + 1 ELSE device_updates
        /\ new_data_available' = new_data_available + 1

(* DataManager.process_sensor_data(data), run at clock value t;
   db_ok: db_manager.update_device_data does not raise *)
process_sensor_data(data, t, db_ok) ==
    LET res == add_reading(Analyzer, data.temperature, t)
    IN  /\ total_readings_received' = total_readings_received + 1
        /\ SetAnalyzer(res.self)
        /\ current_data' = [current_data EXCEPT
                               !.temperature = Some(data.temperature),
                               !.pressure = Some(data.pressure),
                               !.altitude = Some(data.altitude),
                               !.rssi = Some(data.rssi),
                               !.timestamp = Some(data.timestamp),
                               !.status = "normal",
                               !.analysis = Some(res.ret)]
        /\ temperature_alert' = IF res.ret.alert_type # "NONE"
                                THEN Append(temperature_alert, res.ret)
                                ELSE temperature_alert
        /\ device_status' = IF db_ok
                            THEN Some([device_id |-> data.device_id,
                                       temperature |-> data.temperature,
                                       pressure |-> data.pressure,
                                       altitude |-> data.altitude,
                                       rssi |-> data.rssi,
                                       timestamp |-> data.timestamp])
                            ELSE device_status
        /\ device_updates' = device_updates + 1
        /\ new_data_available' = new_data_available + 1

(* A sensor message arrives: the clock has advanced by dt since the last event *)
SensorData(temperature, dt, db_ok) ==
    /\ total_readings_received < MaxReadings
    /\ now' = now + dt
    /\ LET data == [device_id |-> DEVICE_ID, temperature |-> temperature,
                    pressure |-> 0, altitude |-> 0, rssi |-> 0, timestamp |-> now + dt]
       IN  process_sensor_data(data, now + dt, db_ok)
    /\ UNCHANGED <<save_vars, save_checks, should_save, monitor_vars, status, mqtt_vars>>

FirstReading ==
    /\ current_data.temperature = None
    /\ \E t0 \in StartTemps, db_ok \in DbOutcomes : SensorData(t0, 60, db_ok)

NextReading ==
    /\ current_data.temperature # None
    /\ \E st \in Steps, db_ok \in DbOutcomes :
          SensorData(Val(current_data.temperature) + st[1], st[2], db_ok)

ReadingAfterGap ==
    /\ current_data.temperature # None
    /\ Gaps(readings) < MaxGaps
    /\ \E st \in GapSteps, db_ok \in DbOutcomes :
          SensorData(Val(current_data.temperature) + st[1], st[2], db_ok)

Next == FirstReading \/ NextReading \/ ReadingAfterGap

Spec == Init /\ [][Next]_vars

---------------------------------------------------------------------------
(* The heartbeat monitor on its own: heartbeats arrive at any moment up to
   the last one the clock bound leaves time to time out; the QTimer started
   by start() runs _check_timeout once per second. *)
Heartbeat ==
    /\ now + HEARTBEAT_TIMEOUT < MaxClock
    /\ register_heartbeat(now)
    /\ UNCHANGED <<now, analyzer_vars, manager_vars, device_updates, save_vars,
                   save_checks, should_save, status, mqtt_vars>>

TimerTick ==
    /\ now < MaxClock
    /\ now' = now + 1
    /\ check_timeout(now + 1)
    /\ UNCHANGED <<analyzer_vars, manager_vars, device_updates, save_vars,
                   save_checks, should_save, status, mqtt_vars>>

MonitorNext == Heartbeat \/ TimerTick

MonitorSpec == Init /\ [][MonitorNext]_vars

(* The timer keeps firing: weak fairness of the tick *)
MonitorLiveSpec == Init /\ [][MonitorNext]_vars /\ WF_vars(TimerTick)

(* The monitor with a client that reads its status at any moment *)
GetStatus ==
    /\ get_status(now)
    /\ UNCHANGED <<now, analyzer_vars, manager_vars, device_updates, save_vars,
                   save_checks, should_save, mqtt_vars>>

MonitorReadNext == Heartbeat \/ TimerTick \/ GetStatus

MonitorReadSpec == Init /\ [][MonitorReadNext]_vars

---------------------------------------------------------------------------
(***************************************************************************)
(* The DataManager and its save timer.  Readings arrive between the runs   *)
(* of the timer's callback; a reading that arrives is stamped with the     *)
(* clock value of the last callback run.                                   *)
(***************************************************************************)
SAVE_TIMER_SECONDS == 60

(* A sensor message arrives at the current clock value *)
Arrival(temperature, db_ok) ==
    /\ LET data == [device_id |-> DEVICE_ID, temperature |-> temperature,
                    pressure |-> 0, altitude |-> 0, rssi |-> 0, timestamp |-> now]
       IN  process_sensor_data(data, now, db_ok)
    /\ UNCHANGED <<now, save_vars, save_checks, should_save, monitor_vars, status,
                   mqtt_vars>>

(* Change of temperature from one arriving reading to the next *)
ArrivalChanges == {60}

FirstArrival ==
    /\ total_readings_received < MaxArrivals
    /\ current_data.temperature = None
    /\ \E t0 \in StartTemps, db_ok \in DbOutcomes : Arrival(t0, db_ok)

NextArrival ==
    /\ total_readings_received < MaxArrivals
    /\ current_data.temperature # None
    /\ \E ch \in ArrivalChanges, db_ok \in DbOutcomes :
          Arrival(Val(current_data.temperature) + ch, db_ok)

(* The timer callback runs d seconds after its last run.  The intervals are
   those of a timer of any period and phase: 2 s puts several runs into one
   top-of-hour window, 3598 s leads from one window to the next. *)
TickIntervals == {2, 3598}
SchedulerStarts == {35998}

SaveTimerTick ==
    /\ save_checks < MaxSaveChecks
    /\ \E d \in TickIntervals, outcome \in SaveOutcomes :
          /\ now' = now + d
          /\ check_save_to_db(now + d, outcome)
    /\ save_checks' = save_checks + 1
    /\ UNCHANGED <<analyzer_vars, manager_vars, device_updates, monitor_vars, status,
                   mqtt_vars>>

ForceSave ==
    /\ save_calls < MaxSaveCalls
    /\ \E outcome \in SaveOutcomes : force_save(now, outcome)
    /\ UNCHANGED <<now, analyzer_vars, manager_vars, device_updates, save_checks,
                   should_save, monitor_vars, status, mqtt_vars>>

SchedulerInit ==
    /\ now \in SchedulerStarts
    /\ Constructed

(* Runs driven by the save timer alone *)
SchedulerNext == FirstArrival \/ NextArrival \/ SaveTimerTick

SchedulerSpec == SchedulerInit /\ [][SchedulerNext]_vars

(* Runs in which force_save is called as well *)
ManagerNext == FirstArrival \/ NextArrival \/ SaveTimerTick \/ ForceSave

ManagerSpec == SchedulerInit /\ [][ManagerNext]_vars

(* The save timer as start() sets it up: the callback runs every 60 s from
   the clock value at which start() was called; a reading has arrived
   before the first run and storage accepts every save. *)
TimerStarts == {35882, 35910}

StartupArrival ==
    /\ save_checks = 0
    /\ FirstArrival

PeriodicSaveCheck ==
    /\ save_checks < MaxTimerChecks
    /\ now' = now + SAVE_TIMER_SECONDS
    /\ \E outcome \in StoredOutcomes :
          check_save_to_db(now + SAVE_TIMER_SECONDS, outcome)
    /\ save_checks' = save_checks + 1
    /\ UNCHANGED <<analyzer_vars, manager_vars, device_updates, monitor_vars, status,
                   mqtt_vars>>

TimerInit ==
    /\ now \in TimerStarts
    /\ Constructed

TimerNext == StartupArrival \/ PeriodicSaveCheck

TimerSpec == TimerInit /\ [][TimerNext]_vars

(* The persistence policy on its own: the process starts at any of the clock
   values, a reading arrives, force_save records a save time, the clock moves
   on to a later value, and should_save_reading is called. *)
PolicyClock == {36000, 36002, 36004, 36005, 36006, 36059, 36060, 36061, 37800,
                39600, 39601, 39604, 39605, 39660}

PolicyArrival ==
    /\ current_data.temperature = None
    /\ \E t0 \in StartTemps : Arrival(t0, TRUE)

PolicySave ==
    /\ last_save_time = None
    /\ current_data.temperature # None
    /\ \E outcome \in StoredOutcomes : force_save(now, outcome)
    /\ UNCHANGED <<now, analyzer_vars, manager_vars, device_updates, save_checks,
                   should_save, monitor_vars, status, mqtt_vars>>

PolicyElapse ==
    /\ \E t \in PolicyClock : t > now /\ now' = t
    /\ UNCHANGED <<analyzer_vars, manager_vars, device_updates, save_vars, save_checks,
                   should_save, monitor_vars, status, mqtt_vars>>

PolicyCheck ==
    /\ should_save' = PolicyCall(last_save_time, now)
    /\ UNCHANGED <<now, analyzer_vars, manager_vars, device_updates, save_vars,
                   save_checks, monitor_vars, status, mqtt_vars>>

PolicyInit ==
    /\ now \in PolicyClock
    /\ Constructed

PolicyNext == PolicyArrival \/ PolicySave \/ PolicyElapse \/ PolicyCheck

PolicySpec == PolicyInit /\ [][PolicyNext]_vars

---------------------------------------------------------------------------
(***************************************************************************)
(* MessageHandler.parse_sensor_data and MQTTClient._handle_sensor_data.    *)
(* A payload is what json.loads makes of the message: json is false when   *)
(* the bytes do not decode to a JSON object, and each field is None when   *)
(* absent, else its JSON value [k, v]:                                     *)
(*   "num"     a finite number v (a temperature in hundredths of a degree) *)
(*   "nan", "inf", "-inf"   the literals NaN, Infinity, -Infinity, which   *)
(*             json.loads accepts                                          *)
(*   "numtext" a string holding the decimal number v                       *)
(*   "nantext" the string "nan"                                            *)
(*   "text"    any other string                                            *)
(*   "null"    null                                                        *)
(* A Python float is [k, v] with k one of "num", "nan", "inf", "-inf".     *)
(***************************************************************************)
JsonValue(k, v) == [k |-> k, v |-> v]

(* float(x): ok is false when the call raises ValueError or TypeError *)
to_float(x) ==
    CASE x.k \in {"num", "numtext"} -> [ok |-> TRUE, f |-> JsonValue("num", x.v)]
      [] x.k \in {"nan", "nantext"} -> [ok |-> TRUE, f |-> JsonValue("nan", 0)]
      [] x.k = "inf"                -> [ok |-> TRUE, f |-> JsonValue("inf", 0)]
      [] x.k = "-inf"               -> [ok |-> TRUE, f |-> JsonValue("-inf", 0)]
      [] OTHER                      -> [ok |-> FALSE, f |-> JsonValue("nan", 0)]

(* int(x): ok is false when the call raises *)
to_int(x) ==
    IF x.k = "num" THEN [ok |-> TRUE, f |-> JsonValue("num", x.v)]
    ELSE [ok |-> FALSE, f |-> JsonValue("nan", 0)]

(* a < n and a > n on floats: every comparison with NaN is false *)
FloatLess(a, n) == a.k = "-inf" \/ (a.k = "num" /\ a.v < n)
FloatGreater(a, n) == a.k = "inf" \/ (a.k = "num" /\ a.v > n)

(* data.get(field, 0) *)
GetOrZero(field) == IF field = None THEN JsonValue("num", 0) ELSE Val(field)

(* parse_sensor_data(payload) at clock value t: None, or the dict returned *)
parse_sensor_data(payload, t) ==
    IF ~payload.json THEN None
    ELSE IF payload.device_id = None \/ payload.temperature = None THEN None
    ELSE LET temperature == to_float(Val(payload.temperature))
             pressure == to_float(GetOrZero(payload.pressure))
             altitude == to_float(GetOrZero(payload.altitude))
             rssi == to_int(GetOrZero(payload.rssi))
         IN  IF ~temperature.ok THEN None
             ELSE IF FloatLess(temperature.f, -5000) \/ FloatGreater(temperature.f, 10000)
                  THEN None
             ELSE IF ~pressure.ok \/ ~altitude.ok \/ ~rssi.ok THEN None
             ELSE Some([device_id |-> Val(payload.device_id),
                        temperature |-> temperature.f,
                        pressure |-> pressure.f,
                        altitude |-> altitude.f,
                        rssi |-> rssi.f,
                        status |-> IF payload.status = None THEN "unknown"
                                   ELSE Val(payload.status),
                        timestamp |-> t])

(* _handle_sensor_data(payload) at clock value t *)
handle_sensor_data(payload, t) ==
    LET data == parse_sensor_data(payload, t)
    IN  /\ sensor_messages' = sensor_messages + 1
        /\ sensor_data_received' = IF data # None
                                   THEN Append(sensor_data_received, Val(data))
                                   ELSE sensor_data_received

(* Messages on the sensor topic *)
TemperatureValues ==
    {JsonValue("num", v) : v \in {-5001, -5000, 2550, 10000, 10001}}
        \cup {JsonValue(k, 0) : k \in {"nan", "inf", "-inf", "nantext", "text", "null"}}
        \cup {JsonValue("numtext", 1970)}
Payloads ==
    [json : BOOLEAN,
     device_id : {None, Some(DEVICE_ID)},
     temperature : {None} \cup {Some(x) : x \in TemperatureValues},
     pressure : {None, Some(JsonValue("num", 63408)), Some(JsonValue("null", 0))},
     altitude : {None},
     rssi : {None, Some(JsonValue("num", -71))},
     status : {Some("normal")}]

SensorMessage ==
    /\ sensor_messages < MaxSensorMessages
    /\ \E payload \in Payloads : handle_sensor_data(payload, now)
    /\ UNCHANGED <<now, analyzer_vars, manager_vars, device_updates, save_vars,
                   save_checks, should_save, monitor_vars, status, session_vars>>

TransportNext == SensorMessage

TransportSpec == Init /\ [][TransportNext]_vars

---------------------------------------------------------------------------
(* A sensor message is processed dt seconds after the last event *)
Reading(temperature, dt, db_ok) ==
    /\ now' = now + dt
    /\ LET data == [device_id |-> DEVICE_ID, temperature |-> temperature,
                    pressure |-> 0, altitude |-> 0, rssi |-> 0, timestamp |-> now + dt]
       IN  process_sensor_data(data, now + dt, db_ok)
    /\ UNCHANGED <<save_vars, save_checks, should_save, monitor_vars, status, mqtt_vars>>

(* The first readings after construction, one minute apart, at any of three
   temperatures: one below the normal band, one inside, one above *)
WarmTemps == {-600, -20, 900}

WarmReading ==
    /\ total_readings_received < MaxWarmReadings
    /\ \E temperature \in WarmTemps : Reading(temperature, 60, TRUE)

WarmNext == WarmReading

WarmSpec == Init /\ [][WarmNext]_vars

---------------------------------------------------------------------------
(* A long stream of readings: the temperature creeps up by 0.01 C per
   reading from -0.2 C; the 22nd and the 23rd reading may come with the door
   open (4 C warmer), and the 23rd may come in the same second as the 22nd *)
BumpAt == {22, 23}
Bumps == {0, 400}
LongGaps(k) == IF k = 23 THEN {0, 60} ELSE {60}

LongReading ==
    /\ total_readings_received < MaxLongReadings
    /\ LET k == total_readings_received + 1
       IN  \E bump \in (IF k \in BumpAt THEN Bumps ELSE {0}), dt \in LongGaps(k) :
               Reading(-20 + k + bump, dt, TRUE)

LongNext == LongReading

LongSpec == Init /\ [][LongNext]_vars

---------------------------------------------------------------------------
(* Unreliable storage.  Readings arrive one minute apart, steady or 1.1 C
   warmer than the last one; the update of the device status fails or not,
   and a save requested at any moment has any of its outcomes *)
StorageChanges == {0, 110}

StorageReading ==
    /\ total_readings_received < MaxStorageReadings
    /\ \E ch \in StorageChanges, db_ok \in BOOLEAN :
          Reading(IF current_data.temperature = None THEN -20
                  ELSE Val(current_data.temperature) + ch, 60, db_ok)

StorageSave ==
    /\ save_calls < MaxStorageSaves
    /\ \E outcome \in SaveOutcomes : force_save(now, outcome)
    /\ UNCHANGED <<now, analyzer_vars, manager_vars, device_updates, save_checks,
                   should_save, monitor_vars, status, mqtt_vars>>

StorageNext == StorageReading \/ StorageSave

StorageSpec == Init /\ [][StorageNext]_vars

---------------------------------------------------------------------------
(* Alert episodes.  Readings one minute apart at -0.2 C, 1.1 C, 4 C (a rise
   of a door opening) or 9 C (above the normal band), in any order *)
EpisodeTemps == {-20, 110, 400, 900}

EpisodeReading ==
    /\ total_readings_received < MaxEpisodeReadings
    /\ \E temperature \in EpisodeTemps : Reading(temperature, 60, TRUE)

EpisodeNext == EpisodeReading

EpisodeSpec == Init /\ [][EpisodeNext]_vars

---------------------------------------------------------------------------
(* Commits of distinguishable readings.  The k-th reading that arrives has
   its own temperature, pressure, altitude and rssi; the update of the
   device status fails or not; the timer callback runs as in SchedulerSpec *)
SensorReading(k) ==
    [device_id |-> DEVICE_ID, temperature |-> -20 + 10 * k, pressure |-> 1000 + k,
     altitude |-> 2000 + k, rssi |-> -60 - k, timestamp |-> now]

CommitArrival ==
    /\ total_readings_received < MaxCommitArrivals
    /\ \E db_ok \in BOOLEAN :
          process_sensor_data(SensorReading(total_readings_received + 1), now, db_ok)
    /\ UNCHANGED <<now, save_vars, save_checks, should_save, monitor_vars, status,
                   mqtt_vars>>

CommitNext == CommitArrival \/ SaveTimerTick

CommitSpec == SchedulerInit /\ [][CommitNext]_vars

---------------------------------------------------------------------------
(***************************************************************************)
(* mqtt/mqtt_client.py: the session with the broker.  The callbacks run on  *)
(* the network loop that connect() starts.                                  *)
(***************************************************************************)
MQTT_QOS == 1
MQTT_TOPIC_SENSOR == "fridge/esp32-fridge-001/sensor_data"
MQTT_TOPIC_HEARTBEAT == "fridge/esp32-fridge-001/heartbeat"
RECONNECT_DELAY == 5

(* self.topics *)
topics == <<[topic |-> MQTT_TOPIC_SENSOR, qos |-> MQTT_QOS],
            [topic |-> MQTT_TOPIC_HEARTBEAT, qos |-> MQTT_QOS]>>

(* connect(): emitted is what the running handler has emitted so far on
   connection_status_changed; ok: self.client.connect does not raise *)
connect(emitted, ok) ==
    /\ connect_calls' = connect_calls + 1
    /\ connection_status_changed' = IF ok THEN emitted ELSE Append(emitted, FALSE)

(* _on_connect(client, userdata, flags, rc) *)
on_connect(rc) ==
    /\ broker_callback' = Some([name |-> "on_connect", rc |-> rc])
    /\ IF rc = 0
       THEN /\ connected' = TRUE
            /\ connection_status_changed' = Append(connection_status_changed, TRUE)
            /\ subscriptions' = subscriptions \o topics
       ELSE /\ connected' = FALSE
            /\ connection_status_changed' = Append(connection_status_changed, FALSE)
            /\ subscriptions' = subscriptions
    /\ UNCHANGED connect_calls

(* Variant of on_disconnect: a clean disconnect reconnects as well *)
on_disconnect_always(rc, ok) ==
    /\ broker_callback' = Some([name |-> "on_disconnect", rc |-> rc])
    /\ connected' = FALSE
    /\ now' = now + RECONNECT_DELAY
    /\ connect(Append(connection_status_changed, FALSE), ok)
    /\ UNCHANGED subscriptions

(* _on_disconnect(client, userdata, rc) *)
on_disconnect(rc, ok) ==
    /\ broker_callback' = Some([name |-> "on_disconnect", rc |-> rc])
    /\ connected' = FALSE
    /\ IF rc = 0
       THEN /\ connection_status_changed' = Append(connection_status_changed, FALSE)
            /\ UNCHANGED <<now, connect_calls>>
       ELSE /\ now' = now + RECONNECT_DELAY
            /\ connect(Append(connection_status_changed, FALSE), ok)
    /\ UNCHANGED subscriptions

(* Result codes of the callbacks: success, and two of the failures *)
ResultCodes == {0, 1, 5}

(* The application connects once *)
Connect ==
    /\ connect_calls = 0
    /\ \E ok \in BOOLEAN : connect(connection_status_changed, ok)
    /\ UNCHANGED <<now, connected, subscriptions, broker_callback>>
    /\ UNCHANGED <<analyzer_vars, manager_vars, device_updates, save_vars, save_checks,
                   should_save, monitor_vars, status, sensor_data_received,
                   sensor_messages>>

OnConnect ==
    /\ connect_calls > 0
    /\ Len(connection_status_changed) < MaxSessionEvents
    /\ \E rc \in ResultCodes : on_connect(rc)
    /\ UNCHANGED <<now, analyzer_vars, manager_vars, device_updates, save_vars,
                   save_checks, should_save, monitor_vars, status,
                   sensor_data_received, sensor_messages>>

OnDisconnect ==
    /\ connect_calls > 0
    /\ Len(connection_status_changed) < MaxSessionEvents
    /\ \E rc \in ResultCodes, ok \in BOOLEAN : on_disconnect(rc, ok)
    /\ UNCHANGED <<analyzer_vars, manager_vars, device_updates, save_vars,
                   save_checks, should_save, monitor_vars, status,
                   sensor_data_received, sensor_messages>>

SessionNext == Connect \/ OnConnect \/ OnDisconnect

SessionSpec == Init /\ [][SessionNext]_vars

---------------------------------------------------------------------------
(* Readings one minute apart around the top of an hour: the first reading
   arrives at 9:56:00, the fifth at 10:00:00. *)
HourStarts == {35700}

HourInit ==
    /\ now \in HourStarts
    /\ Constructed

HourNext == FirstReading \/ NextReading

HourSpec == HourInit /\ [][HourNext]_vars

---------------------------------------------------------------------------
(***************************************************************************)
(* Properties.  In a state reached by process_sensor_data the newest       *)
(* window entry is the reading of the last add_reading call, its timestamp *)
(* is the clock value of that call, and Verdict is what the call returned. *)
(* Up to Maxlen readings the window holds every reading received, so the   *)
(* i-th entry is the reading of the i-th call.                             *)
(***************************************************************************)
Called == current_data.analysis # None
Verdict == Val(current_data.analysis)
Temp(i) == readings[i].temperature
Time(i) == readings[i].timestamp
Last == Len(readings)
InBand(x) == x >= TEMP_NORMAL_RANGE_MIN /\ x <= TEMP_NORMAL_RANGE_MAX
ActiveKinds == {"DOOR_OPENING", "CRITICAL_INCREASE", "CRITICAL_DECREASE"}

(* Indices of the samples no older than w seconds at the i-th call *)
Within(i, w) == {j \in 1..i : Time(j) >= Time(i) - w}
Oldest(S) == CHOOSE j \in S : \A k \in S : j <= k
(* Change over the last w seconds at the i-th call *)
Delta(i, w) == Temp(i) - Temp(Oldest(Within(i, w)))
(* The analyzer's baseline as a deviation test: |x - baseline| < lim *)
NearBaseline(x, b, lim) == Abs(x * Den(b) - Num(b)) < lim * Den(b)

(* C1: monotonic drift is detected.  If the last 5 calls were all after
   warm-up with in-band readings each strictly greater than its
   predecessor, at least 10 samples lie within the last 10 minutes, the
   reading exceeds the oldest of them by more than the slow-increase
   threshold and the 5-minute change does not exceed the rapid-change
   threshold, the verdict is CRITICAL_INCREASE; symmetrically
   CRITICAL_DECREASE for a monotonic fall. *)
C1_Rising ==
    /\ Last >= 9
    /\ \A i \in (Last - 4)..Last : InBand(Temp(i)) /\ Temp(i) > Temp(i - 1)
    /\ Cardinality(Within(Last, 600)) >= 10
    /\ Delta(Last, 600) > TEMP_ALERT_SLOW_INCREASE
    /\ Delta(Last, 300) <= TEMP_ALERT_RAPID_CHANGE
C1_Falling ==
    /\ Last >= 9
    /\ \A i \in (Last - 4)..Last : InBand(Temp(i)) /\ Temp(i) < Temp(i - 1)
    /\ Cardinality(Within(Last, 600)) >= 10
    /\ Delta(Last, 600) < -TEMP_ALERT_SLOW_INCREASE
    /\ Delta(Last, 300) <= TEMP_ALERT_RAPID_CHANGE
C1_MonotonicDriftDetected ==
    /\ C1_Rising => Verdict.alert_type = "CRITICAL_INCREASE"
    /\ C1_Falling => Verdict.alert_type = "CRITICAL_DECREASE"

(* C2: an active DOOR_OPENING or CRITICAL_* alert is left only through the
   recovery rule: a following call returns NONE only with isRecovering set
   and the reading within the recovery distance of the baseline. *)
C2_ExitOnlyByRecovery ==
    [][ ( /\ last_alert # None
          /\ Val(last_alert) \in ActiveKinds
          /\ readings' # readings
          /\ Verdict'.alert_type = "NONE" )
        => ( /\ Verdict'.is_recovering
             /\ NearBaseline(Temp(Last)', Val(baseline_temp'),
                              IF Val(last_alert) = "DOOR_OPENING" THEN 50 ELSE 100) )
      ]_vars

(* C3: baseline freeze.  A call that starts while the active alert is not
   NONE leaves the baseline as it was, whatever the size of the window. *)
C3_BaselineFrozen ==
    [][ ( /\ last_alert # None
          /\ Val(last_alert) # "NONE"
          /\ readings' # readings )
        => FracEq(Val(baseline_temp'), Val(baseline_temp)) ]_vars

(* C4: alert de-duplication.  A temperature_alert event is emitted only
   when its alert kind differs from the kind of the previously emitted
   event. *)
C4_AlertDeduplicated ==
    [][ ( /\ temperature_alert' # temperature_alert
          /\ temperature_alert # <<>> )
        => temperature_alert'[Len(temperature_alert')].alert_type
              # temperature_alert[Len(temperature_alert)].alert_type ]_vars

(* C5: rapid-change rule.  After warm-up, for an in-band reading, the
   verdict is DOOR_OPENING exactly when at least 5 samples are no older
   than 5 minutes and the reading exceeds the oldest of them by strictly
   more than the rapid-change threshold. *)
C5_RapidChangeRule ==
    (Called /\ Last >= 5 /\ InBand(Temp(Last)))
    => ( Verdict.alert_type = "DOOR_OPENING"
         <=> ( /\ Cardinality(Within(Last, 300)) >= 5
               /\ Delta(Last, 300) > TEMP_ALERT_RAPID_CHANGE ) )
(* a door opening is reported *)
C5_Witness ==
    /\ Called /\ Last >= 5 /\ InBand(Temp(Last))
    /\ Verdict.alert_type = "DOOR_OPENING"

(* C6: range rule.  After warm-up the verdict is OUT_OF_RANGE exactly when
   the reading is strictly below the minimum or strictly above the maximum
   of the normal band, whatever the rest of the state. *)
C6_RangeRule ==
    (Called /\ Last >= 5)
    => ( Verdict.alert_type = "OUT_OF_RANGE"
         <=> ( Temp(Last) < TEMP_NORMAL_RANGE_MIN \/ Temp(Last) > TEMP_NORMAL_RANGE_MAX ) )
(* a reading above the maximum of the band, past warm-up, reported OUT_OF_RANGE *)
C6_Witness ==
    /\ Called /\ Last >= 5
    /\ Temp(Last) > TEMP_NORMAL_RANGE_MAX
    /\ Verdict.alert_type = "OUT_OF_RANGE"

(* C7: no false alarm.  If every reading so far was in band, with a
   5-minute change not above the rapid-change threshold and a 10-minute
   change not above the slow-change threshold in magnitude, the verdict is
   NONE. *)
AllQuiet ==
    \A i \in 1..Last :
        /\ InBand(Temp(i))
        /\ Delta(i, 300) <= TEMP_ALERT_RAPID_CHANGE
        /\ Abs(Delta(i, 600)) <= TEMP_ALERT_SLOW_INCREASE
C7_NoFalseAlarm ==
    (Called /\ AllQuiet) => Verdict.alert_type = "NONE"
(* a quiet history past warm-up whose 5-minute change is above the slow
   threshold and whose 5-minute window is full *)
C7_Witness ==
    /\ Called /\ AllQuiet /\ Last >= 7
    /\ Cardinality(Within(Last, 300)) >= 5
    /\ Delta(Last, 300) > TEMP_ALERT_SLOW_INCREASE
    /\ Verdict.alert_type = "NONE"

(* C8: recovery rule.  A call that starts with DOOR_OPENING active, with an
   in-band reading for which neither the rapid nor the gradual check
   fires, returns NONE with isRecovering set when the reading is within
   0.5 of the analyzer's baseline; likewise within 1.0 when a CRITICAL_*
   alert is active. *)
C8_RecoveryRule ==
    [][ ( /\ last_alert # None
          /\ Val(last_alert) \in ActiveKinds
          /\ readings' # readings
          /\ InBand(Temp(Last)')
          /\ Verdict'.alert_type \notin ActiveKinds
          /\ NearBaseline(Temp(Last)', Val(baseline_temp'),
                           IF Val(last_alert) = "DOOR_OPENING" THEN 50 ELSE 100) )
        => ( Verdict'.alert_type = "NONE" /\ Verdict'.is_recovering )
      ]_vars
(* a recovery was reported after a door opening *)
C8_Witness ==
    /\ Called
    /\ temperature_alert # <<>>
    /\ temperature_alert[Len(temperature_alert)].alert_type = "DOOR_OPENING"
    /\ Verdict.alert_type = "NONE"
    /\ Verdict.is_recovering
    /\ NearBaseline(Temp(Last), Val(baseline_temp), 50)

(* C9: oscillation is not drift.  While every reading is in band and no 5
   consecutive readings are each strictly greater than the one before, the
   verdict is never CRITICAL_INCREASE. *)
AllInBand == \A i \in 1..Last : InBand(Temp(i))
FiveIncreases ==
    \E i \in 6..Last : \A j \in (i - 4)..i : Temp(j) > Temp(j - 1)
C9_OscillationIsNotDrift ==
    (Called /\ AllInBand /\ ~FiveIncreases)
    => Verdict.alert_type # "CRITICAL_INCREASE"
(* an oscillating path that nets more than the slow-increase threshold over
   a full 10-minute window and is reported NONE *)
C9_Witness ==
    /\ Called /\ AllInBand /\ ~FiveIncreases
    /\ Cardinality(Within(Last, 600)) >= 10
    /\ Delta(Last, 600) > TEMP_ALERT_SLOW_INCREASE
    /\ \E i \in 2..Last : Temp(i) < Temp(i - 1)
    /\ Verdict.alert_type = "NONE"

(* C10: a disconnect is detected exactly once.  With the timer running, an
   online monitor that receives no further heartbeat eventually goes
   offline, and device_disconnected is emitted exactly in the step that
   turns is_online from true to false: once per disconnect, and never by a
   tick while offline. *)
C10_DisconnectExactlyOnce ==
    /\ is_online ~> ~is_online
    /\ [][ device_disconnected' =
              device_disconnected + (IF is_online /\ ~is_online' THEN 1 ELSE 0) ]_vars
(* offline after one heartbeat, one event, and ticks have run since *)
C10_Witness ==
    /\ last_heartbeat_time # None
    /\ ~is_online
    /\ device_connected = 1
    /\ device_disconnected = 1
    /\ now > Val(last_heartbeat_time) + HEARTBEAT_TIMEOUT + 2

(* C11: with no heartbeat ever registered, every run of the timeout check is
   a no-op: the step of a tick leaves is_online false, last_heartbeat_time
   unset and both signals silent, whatever the clock reads. *)
C11_NoHeartbeatNoTimeout ==
    [][ (last_heartbeat_time = None /\ now' # now) =>
            /\ ~is_online'
            /\ last_heartbeat_time' = None
            /\ device_disconnected' = 0
            /\ UNCHANGED monitor_vars ]_vars
(* more ticks than the timeout have run and no heartbeat was ever heard *)
C11_Witness ==
    /\ last_heartbeat_time = None
    /\ now > HEARTBEAT_TIMEOUT + 2
    /\ ~is_online
    /\ device_disconnected = 0

(* C12: the timeout comparison is strict.  A tick at which the time since the
   last heartbeat is at most the timeout changes nothing in the monitor, and
   the step that takes the device offline is a tick at which that time is
   strictly greater than the timeout. *)
C12_StrictTimeout ==
    [][ /\ (now' # now /\ last_heartbeat_time # None
              /\ now' - Val(last_heartbeat_time) <= HEARTBEAT_TIMEOUT)
           => UNCHANGED monitor_vars
        /\ (is_online /\ ~is_online')
           => (now' # now /\ now' - Val(last_heartbeat_time) > HEARTBEAT_TIMEOUT) ]_vars
(* a tick has run exactly timeout seconds after the heartbeat: still online *)
C12_Witness ==
    /\ last_heartbeat_time # None
    /\ now = Val(last_heartbeat_time) + HEARTBEAT_TIMEOUT
    /\ is_online
    /\ device_disconnected = 0

(* C13: connect events are edge-triggered.  Every heartbeat leaves the device
   online with last_heartbeat_time at the clock value of the call, and emits
   device_connected exactly when the device was offline before the call, the
   first heartbeat included; it never emits device_disconnected. *)
C13_ConnectOnEdge ==
    [][ now' = now =>
            /\ is_online'
            /\ last_heartbeat_time' = Some(now)
            /\ device_connected' = device_connected + (IF is_online THEN 0 ELSE 1)
            /\ device_disconnected' = device_disconnected ]_vars
(* online again after a disconnect: two connect events, and the last
   heartbeat was heard while the device was already online again *)
C13_Witness ==
    /\ is_online
    /\ device_connected = 2
    /\ device_disconnected = 1
    /\ now > Val(last_heartbeat_time)

(* C14: offline is latched.  The only step that turns is_online from false
   to true is a heartbeat: it records the heartbeat at the current clock
   value and emits device_connected; no tick and no status read does it. *)
C14_OfflineLatched ==
    [][ (~is_online /\ is_online') =>
            /\ now' = now
            /\ status' = status
            /\ last_heartbeat_time' = Some(now)
            /\ device_connected' = device_connected + 1 ]_vars
(* the device timed out, ticks went on, and a status read reported it offline *)
C14_Witness ==
    /\ ~is_online
    /\ last_heartbeat_time # None
    /\ now > Val(last_heartbeat_time) + HEARTBEAT_TIMEOUT + 2
    /\ status # None
    /\ ~Val(status).is_online
    /\ Val(status).seconds_since_heartbeat = Some(now - Val(last_heartbeat_time))

(* C15: should_save_reading(last_save_time) called at clock value now returns
   true exactly when now lies in the first five seconds of an hour and
   either no save time is recorded or at least 3540 seconds have passed
   since it.  In particular: true at 10:00:02 with no prior save, false at
   10:00:06, false at 10:30:00 after a save at 10:00:02, true at 11:00:01
   after that save. *)
C15_PolicyRule ==
    should_save # None =>
        LET c == Val(should_save)
            unset == c.last_save_time = None
        IN  /\ c.ret = (/\ c.now % 3600 < 5
                        /\ (unset \/ c.now - Val(c.last_save_time) >= 3540))
            /\ (c.now = 36002 /\ unset) => c.ret
            /\ c.now = 36006 => ~c.ret
            /\ (c.now = 37800 /\ c.last_save_time = Some(36002)) => ~c.ret
            /\ (c.now = 39601 /\ c.last_save_time = Some(36002)) => c.ret
(* the call at 11:00:00 after a save at 10:01:00, exactly 3540 s earlier *)
C15_Witness ==
    /\ should_save # None
    /\ Val(should_save).now = 39600
    /\ Val(should_save).last_save_time = Some(36060)
    /\ Val(should_save).ret

(* C16: at most one scheduled commit per hour.  In a run driven by the save
   timer, whatever the intervals between its runs, any two committed rows
   were recorded at least 3540 seconds apart and in different wall-clock
   hours. *)
C16_OneCommitPerHour ==
    \A i, j \in 1..Len(temperature_readings) :
        i < j =>
            /\ temperature_readings[j].recorded_at
                   - temperature_readings[i].recorded_at >= 3540
            /\ temperature_readings[j].recorded_at \div 3600
                   # temperature_readings[i].recorded_at \div 3600
(* two commits, and a later check in the window of the second one declined *)
C16_Witness ==
    /\ Len(temperature_readings) = 2
    /\ now > temperature_readings[2].recorded_at
    /\ now % 3600 < 5
    /\ should_save # None
    /\ Val(should_save).now = now
    /\ ~Val(should_save).ret

(* The last policy check said "save" and the save it started failed: the
   recorded save time is still the one the check was called with *)
FailedLast ==
    /\ should_save # None
    /\ Val(should_save).ret
    /\ last_save_time = Val(should_save).last_save_time

(* C17: a failed commit does not advance the schedule.  A storage call that
   commits no row leaves last_save_time and total_readings_saved unchanged
   and emits no data_saved_to_db; last_save_time changes, and the event is
   emitted, only in a step that commits a row recorded at the new save
   time; and after a failed save the next timer check that falls in a
   top-of-hour window finds the save due and calls storage again. *)
C17_FailedCommitKeepsSchedule ==
    [][ /\ (save_calls' # save_calls /\ temperature_readings' = temperature_readings)
           => UNCHANGED <<last_save_time, total_readings_saved, data_saved_to_db>>
        /\ (last_save_time' # last_save_time \/ data_saved_to_db' # data_saved_to_db)
           => /\ save_calls' = save_calls + 1
              /\ Len(temperature_readings') = Len(temperature_readings) + 1
              /\ temperature_readings'[Len(temperature_readings')].recorded_at
                    = Val(last_save_time')
              /\ total_readings_saved' = total_readings_saved + 1
        /\ (FailedLast /\ save_checks' # save_checks /\ now' % 3600 < 5)
           => /\ Val(should_save').ret
              /\ save_calls' = save_calls + 1 ]_vars
(* a save failed and the retry at a later check committed the row *)
C17_Witness ==
    /\ save_calls = 2
    /\ Len(temperature_readings) = 1
    /\ total_readings_saved = 1
    /\ last_save_time = Some(now)
    /\ temperature_readings[1].recorded_at = now

(* C18 as stated: save_temperature_reading is invoked only when the
   persistence policy is satisfied, whichever operation of DataManager
   reaches it. *)
C18_SaveOnlyWhenDue ==
    [][ save_calls' # save_calls =>
            /\ now' % 3600 < 5
            /\ (last_save_time = None \/ now' - Val(last_save_time) >= 3540) ]_vars

(* C18 amended: the save timer's check invokes save_temperature_reading only
   when a reading is present and the persistence policy is satisfied at the
   clock value of the check; force_save invokes it whatever the policy
   says. *)
C18_TimerSavesOnlyWhenDue ==
    [][ (save_calls' # save_calls /\ save_checks' # save_checks) =>
            /\ current_data.temperature # None
            /\ now' % 3600 < 5
            /\ (last_save_time = None \/ now' - Val(last_save_time) >= 3540) ]_vars
(* a forced save outside the window, then a save by the timer in a window *)
C18_Witness ==
    /\ save_calls = 2
    /\ Len(temperature_readings) = 2
    /\ temperature_readings[1].recorded_at % 3600 >= 5
    /\ temperature_readings[2].recorded_at % 3600 < 5
    /\ save_checks > 0

(* C19: the hourly cadence is met.  With the save timer running every 60
   seconds since start(), a reading received before an hour begins and
   storage accepting every save, each wall-clock hour that has fully passed
   holds a committed row, whatever the second at which the timer started. *)
C19_HourlyCadence ==
    \A h \in 0..23 :
        (/\ current_data.timestamp # None
         /\ Val(current_data.timestamp) < h * 3600
         /\ now >= (h + 1) * 3600)
        => \E i \in 1..Len(temperature_readings) :
               temperature_readings[i].recorded_at \div 3600 = h

(* C20: the last-known device record is updated on every accepted reading.
   Every process_sensor_data call invokes update_device_data exactly once,
   with the values of the reading it was given, whether or not a save is
   due at that moment and whatever verdict the analyzer returns. *)
C20_LastKnownUpdated ==
    [][ total_readings_received' # total_readings_received =>
            /\ device_updates' = device_updates + 1
            /\ device_updates' = total_readings_received'
            /\ device_status' # None
            /\ Val(device_status').temperature = readings'[Len(readings')].temperature
            /\ Some(Val(device_status').temperature) = current_data'.temperature
            /\ Some(Val(device_status').timestamp) = current_data'.timestamp
            /\ Val(device_status').timestamp = now' ]_vars
(* the fifth reading arrives at 10:00:00, when a save is due, and raises an
   alert: the record holds its values *)
C20_Witness ==
    /\ now = 36000
    /\ should_save_reading(last_save_time, now)
    /\ device_updates = 5
    /\ Called
    /\ Verdict.alert_type = "DOOR_OPENING"
    /\ device_status # None
    /\ Val(device_status).timestamp = now
    /\ Some(Val(device_status).temperature) = current_data.temperature

(* C21: alert changes are surfaced in both directions.  Whenever a reading's
   verdict has another alert kind than the verdict of the reading before
   it, the verdict is emitted on temperature_alert: when an alert is
   raised, when it changes, and when it is cleared back to NONE. *)
C21_AlertChangeSurfaced ==
    [][ (/\ Called
         /\ total_readings_received' # total_readings_received
         /\ Verdict'.alert_type # Verdict.alert_type)
        => temperature_alert' = Append(temperature_alert, Verdict') ]_vars

(* C22: input validation at the transport boundary.  Every dict emitted on
   sensor_data_received carries a device id and a temperature that is a
   finite number with -50 <= temperature <= 100; a payload without one of
   the two fields, or with a temperature that is not a number, is out of
   range or is not finite (NaN, +/-Infinity), emits nothing. *)
C22_OnlyValidReadingsPass ==
    \A i \in 1..Len(sensor_data_received) :
        LET data == sensor_data_received[i]
        IN  /\ data.device_id = DEVICE_ID
            /\ data.temperature.k = "num"
            /\ data.temperature.v >= -5000
            /\ data.temperature.v <= 10000

(* C23: the verdict's fields reflect the state.  In every verdict returned
   after at least one reading, baseline_temp is the analyzer's baseline and
   temp_change is current_temp minus the baseline, both rounded to two
   decimals, whatever the value of the baseline, a baseline of exactly 0
   included. *)
C23_VerdictReflectsState ==
    Called =>
        /\ baseline_temp # None
        /\ Verdict.baseline_temp = Some(Round2(Val(baseline_temp)))
        /\ Verdict.temp_change =
              Round2(Frac(Verdict.current_temp * Den(Val(baseline_temp))
                            - Num(Val(baseline_temp)),
                          Den(Val(baseline_temp))))

(* C24: warm-up.  Each of the first 4 add_reading calls after construction
   returns NONE whatever the temperature, one outside the normal band
   included, and leaves the baseline at the arithmetic mean of all the
   readings received so far; the baseline is unset only before the first
   reading. *)
C24_WarmUp ==
    /\ (baseline_temp = None) <=> (total_readings_received = 0)
    /\ (Called /\ total_readings_received <= 4) =>
          /\ Verdict.alert_type = "NONE"
          /\ Len(readings) = total_readings_received
          /\ Num(Val(baseline_temp)) * Len(readings)
                = SumTemps(readings) * Den(Val(baseline_temp))
(* the fourth reading is above the band, after one below it *)
C24_Witness ==
    /\ total_readings_received = 4
    /\ Temp(4) > TEMP_NORMAL_RANGE_MAX
    /\ Temp(3) < TEMP_NORMAL_RANGE_MIN
    /\ Verdict.alert_type = "NONE"

(* C25: bounded window.  After k add_reading calls under a non-decreasing
   clock the window holds exactly the last min(k, 120) readings, in arrival
   order and with non-decreasing timestamps: every call appends the new
   reading at the end, and from the 121st call on it drops exactly the
   oldest one. *)
C25_StepAppends ==
    total_readings_received' # total_readings_received =>
        LET new == [temperature |-> Val(current_data'.temperature), timestamp |-> now']
        IN  readings' = IF total_readings_received < Maxlen
                        THEN Append(readings, new)
                        ELSE Append(Tail(readings), new)
C25_Shape ==
    /\ Len(readings) = IF total_readings_received < Maxlen
                       THEN total_readings_received ELSE Maxlen
    /\ \A i \in 1..(Len(readings) - 1) : Time(i) <= Time(i + 1)
C25_BoundedWindow == [][C25_StepAppends]_vars /\ []C25_Shape
(* more than 120 readings have arrived: the first ones are gone *)
C25_Witness ==
    /\ total_readings_received > Maxlen + 1
    /\ Len(readings) = Maxlen
    /\ Time(1) > 120

(* Sum and number of the most recent min(n, 20) window samples *)
RecentCount(rs) == IF Len(rs) < 20 THEN Len(rs) ELSE 20
RecentSum(rs) == SumTemps(SubSeq(rs, Len(rs) - RecentCount(rs) + 1, Len(rs)))

(* C30: baseline definition.  For every add_reading call that starts with
   no active alert (the previous verdict was NONE, or there was none yet),
   the baseline after the call is the arithmetic mean of the most recent
   min(n, 20) window samples, the current one included, n being the window
   size after the insertion. *)
C30_BaselineIsRecentMean ==
    [][ (/\ total_readings_received' # total_readings_received
         /\ (~Called \/ Verdict.alert_type = "NONE"))
        => /\ baseline_temp' # None
           /\ Num(Val(baseline_temp')) * RecentCount(readings')
                 = RecentSum(readings') * Den(Val(baseline_temp')) ]_vars
(* the 22nd reading arrives with the door open after 21 quiet ones: the
   baseline is the mean of the last 20 samples, not of all 22 *)
C30_Witness ==
    /\ total_readings_received = 22
    /\ Verdict.alert_type = "DOOR_OPENING"
    /\ Num(Val(baseline_temp)) * 20 = RecentSum(readings) * Den(Val(baseline_temp))
    /\ Num(Val(baseline_temp)) * 22 # SumTemps(readings) * Den(Val(baseline_temp))

(* C26: get_status is a pure read.  A status read leaves is_online and
   last_heartbeat_time unchanged and emits no event; it returns
   is_online = false with no timestamps when no heartbeat was ever
   received, and otherwise the current is_online, the time of the last
   heartbeat and the seconds elapsed since it. *)
C26_StatusIsPureRead ==
    [][ status' # status =>
          /\ UNCHANGED monitor_vars
          /\ status' = Some(IF last_heartbeat_time = None
                            THEN [is_online |-> FALSE, last_heartbeat |-> None,
                                  seconds_since_heartbeat |-> None]
                            ELSE [is_online |-> is_online,
                                  last_heartbeat |-> last_heartbeat_time,
                                  seconds_since_heartbeat |->
                                      Some(now - Val(last_heartbeat_time))]) ]_vars
(* a read three seconds after a heartbeat reports the device online; the
   device had been disconnected once before *)
C26_Witness ==
    /\ status # None
    /\ is_online
    /\ device_disconnected > 0
    /\ Val(status) = [is_online |-> TRUE, last_heartbeat |-> Some(now - 3),
                      seconds_since_heartbeat |-> Some(3)]

(* What a reading step does to the analyzer and to the alert signal is
   what add_reading makes of the reading *)
AsAnalysed ==
    LET res == add_reading(Analyzer, Val(current_data'.temperature), now')
    IN  /\ SetAnalyzer(res.self)
        /\ current_data'.analysis = Some(res.ret)
        /\ temperature_alert' = IF res.ret.alert_type # "NONE"
                                THEN Append(temperature_alert, res.ret)
                                ELSE temperature_alert

(* C27: storage failures are not alerts.  When the update of the device
   status fails during process_sensor_data, or the save fails during a
   commit, no temperature_alert is emitted because of the failure, the
   analyzer state is the same as if storage had succeeded, and
   process_sensor_data still emits new_data_available. *)
C27_StorageFailureIsSilent ==
    [][ /\ (device_updates' # device_updates /\ device_status' = device_status)
            => /\ AsAnalysed
               /\ new_data_available' = new_data_available + 1
        /\ (save_calls' # save_calls /\ total_readings_saved' = total_readings_saved)
            => /\ UNCHANGED analyzer_vars
               /\ UNCHANGED <<temperature_alert, new_data_available, current_data>>
      ]_vars
(* the update failed for the reading that raised the alert, and a save
   failed too *)
C27_Witness ==
    /\ Called
    /\ Verdict.alert_type = "DOOR_OPENING"
    /\ device_status # None
    /\ Val(device_status).timestamp < now
    /\ Len(temperature_alert) = 1
    /\ new_data_available = total_readings_received
    /\ save_calls > total_readings_saved

(* The window of the last 10 and of the last 5 minutes at the latest call *)
Samples10 == Cardinality(Within(Last, 600))
Change10 == Delta(Last, 600)
RapidFires == Cardinality(Within(Last, 300)) >= 5
              /\ Delta(Last, 300) > TEMP_ALERT_RAPID_CHANGE
(* The counters after the comparison of reading x with the preceding sample *)
IncreasesAfter(x) ==
    IF x > Temp(Last) THEN consecutive_increases + 1
    ELSE IF x < Temp(Last) THEN 0 ELSE consecutive_increases
DecreasesAfter(x) ==
    IF x < Temp(Last) THEN consecutive_decreases + 1
    ELSE IF x > Temp(Last) THEN 0 ELSE consecutive_decreases

(* C28: gradual-change rule.  In an add_reading call after warm-up where
   the reading is in band and the rapid-change check does not fire, the
   verdict is CRITICAL_INCREASE if and only if at least 10 window samples
   are no older than 10 minutes, the reading exceeds the oldest of them by
   more than the slow-increase threshold, and consecutive_increases, after
   this call's comparison with the preceding sample, is at least 5;
   CRITICAL_DECREASE symmetrically. *)
C28_GradualRule ==
    [][ (/\ total_readings_received' # total_readings_received
         /\ Len(readings) >= 4
         /\ InBand(Verdict'.current_temp)
         /\ ~RapidFires')
        => /\ (Verdict'.alert_type = "CRITICAL_INCREASE")
                <=> (/\ Samples10' >= 10
                     /\ Change10' > TEMP_ALERT_SLOW_INCREASE
                     /\ IncreasesAfter(Verdict'.current_temp) >= 5)
           /\ (Verdict'.alert_type = "CRITICAL_DECREASE")
                <=> (/\ Samples10' >= 10
                     /\ Change10' < -TEMP_ALERT_SLOW_INCREASE
                     /\ DecreasesAfter(Verdict'.current_temp) >= 5) ]_vars
(* ten samples in ten minutes and a fall of more than the threshold, the
   last one a fall again: the counter stands at 1 and the verdict is NONE *)
C28_Witness ==
    /\ Called
    /\ Last >= 10
    /\ InBand(Temp(Last))
    /\ ~RapidFires
    /\ Samples10 >= 10
    /\ Change10 < -TEMP_ALERT_SLOW_INCREASE
    /\ Temp(Last) < Temp(Last - 1)
    /\ Verdict.alert_type = "NONE"

(* C29: counters are reset on NONE.  After any add_reading call past
   warm-up whose verdict is NONE, a normal one or a recovery from
   DOOR_OPENING or from a critical alert, both consecutive_increases and
   consecutive_decreases are 0. *)
C29_CountersResetOnNone ==
    (Called /\ total_readings_received >= 5 /\ Verdict.alert_type = "NONE")
    => (consecutive_increases = 0 /\ consecutive_decreases = 0)

(* C31: isRecovering is only set on a genuine clear.  Every verdict with
   is_recovering = true has kind NONE and is returned by a call that started
   with active alert DOOR_OPENING, CRITICAL_INCREASE or CRITICAL_DECREASE;
   a verdict following NONE or OUT_OF_RANGE never has is_recovering = true. *)
C31_RecoveringOnlyOnClear ==
    [][ (total_readings_received' # total_readings_received
         /\ Verdict'.is_recovering)
        => /\ Verdict'.alert_type = "NONE"
           /\ Called
           /\ Verdict.alert_type \in ActiveKinds
           /\ last_alert = Some(Verdict.alert_type) ]_vars
(* a reading back near the baseline right after a door opening, and the
   same reading right after an out-of-range alert *)
C31_Witness ==
    /\ total_readings_received = 6
    /\ Temp(5) = 400
    /\ Temp(6) = 110
    /\ Verdict.alert_type = "NONE"
    /\ Verdict.is_recovering

(* C32: heartbeat monitor invariants, over every interleaving of
   register_heartbeat and _check_timeout.  is_online implies that
   last_heartbeat_time is set; device_connected and device_disconnected
   events strictly alternate, starting with device_connected; and the
   number of connected events minus the number of disconnected events is 1
   when is_online and 0 otherwise. *)
C32_Balance ==
    /\ is_online => last_heartbeat_time # None
    /\ device_connected - device_disconnected = IF is_online THEN 1 ELSE 0
C32_Alternate ==
    /\ device_connected' # device_connected
        => /\ device_connected' = device_connected + 1
           /\ device_disconnected' = device_disconnected
           /\ device_connected = device_disconnected
    /\ device_disconnected' # device_disconnected
        => /\ device_disconnected' = device_disconnected + 1
           /\ device_connected' = device_connected
           /\ device_connected = device_disconnected + 1
C32_MonitorInvariants == []C32_Balance /\ [][C32_Alternate]_vars
(* connected, timed out, connected again and timed out again *)
C32_Witness ==
    /\ device_connected = 2
    /\ device_disconnected = 2
    /\ ~is_online
    /\ last_heartbeat_time # None

(* C33: a commit persists one coherent reading.  Under every interleaving of
   reading arrivals and scheduler ticks, the temperature, pressure, altitude
   and rssi passed to save_temperature_reading all come from the same
   reading, and that reading is the most recently processed one at the time
   of the commit. *)
C33_CoherentCommit ==
    [][ temperature_readings' # temperature_readings =>
          LET row == temperature_readings'[Len(temperature_readings')]
              latest == SensorReading(total_readings_received)
          IN  /\ total_readings_received >= 1
              /\ total_readings_received' = total_readings_received
              /\ Len(temperature_readings') = Len(temperature_readings) + 1
              /\ row.temperature = Some(latest.temperature)
              /\ row.pressure = Some(latest.pressure)
              /\ row.altitude = Some(latest.altitude)
              /\ row.rssi = Some(latest.rssi)
              /\ row.recorded_at = now' ]_vars
(* the second reading is committed although the device status still holds
   the first *)
C33_Witness ==
    /\ temperature_readings # <<>>
    /\ temperature_readings[Len(temperature_readings)].pressure = Some(1002)
    /\ temperature_readings[Len(temperature_readings)].rssi = Some(-62)
    /\ device_status # None
    /\ Val(device_status).pressure = 1001

(* C34: no commit without data.  A run of the timer callback before any
   reading has been processed never invokes the save, never changes
   last_save_time or total_readings_saved and emits no event, even when it
   falls inside a top-of-hour window. *)
C34_NoCommitWithoutData ==
    [][ (save_checks' # save_checks /\ total_readings_received = 0)
        => /\ save_calls' = save_calls
           /\ last_save_time' = last_save_time
           /\ total_readings_saved' = total_readings_saved
           /\ temperature_readings' = temperature_readings
           /\ data_saved_to_db' = data_saved_to_db
           /\ temperature_alert' = temperature_alert
           /\ new_data_available' = new_data_available ]_vars
(* two runs of the callback inside the window of 10:00, no reading yet *)
C34_Witness ==
    /\ total_readings_received = 0
    /\ save_checks = 2
    /\ is_on_the_hour(now)
    /\ save_calls = 0
    /\ last_save_time = None

(* C35: counter exclusivity.  In every reachable analyzer state at most one
   of consecutive_increases and consecutive_decreases is non-zero and both
   are non-negative; a call that returns OUT_OF_RANGE or DOOR_OPENING or a
   warm-up verdict leaves both counters unchanged. *)
C35_Exclusive ==
    /\ consecutive_increases >= 0
    /\ consecutive_decreases >= 0
    /\ consecutive_increases = 0 \/ consecutive_decreases = 0
C35_EarlyReturnKeeps ==
    (/\ total_readings_received' # total_readings_received
     /\ \/ Verdict'.alert_type \in {"OUT_OF_RANGE", "DOOR_OPENING"}
        \/ total_readings_received' <= 4)
    => UNCHANGED <<consecutive_increases, consecutive_decreases>>
C35_CounterExclusivity == []C35_Exclusive /\ [][C35_EarlyReturnKeeps]_vars
(* the door is opened again right after a recovery that left one decrease
   counted *)
C35_Witness ==
    /\ total_readings_received = 7
    /\ Verdict.alert_type = "DOOR_OPENING"
    /\ consecutive_decreases = 1
    /\ consecutive_increases = 0

(* The callback paho ran last, and whether this step is a run of a callback *)
LastCallback == Val(broker_callback)
CallbackRuns ==
    /\ broker_callback' # None
    /\ Len(connection_status_changed') > Len(connection_status_changed)
    /\ connect_calls > 0

(* C36: MQTT session state.  After any sequence of broker callbacks,
   connected is true exactly when the most recent callback was a connect
   with rc = 0, and every change is reported by a connection_status_changed
   event with the new value; after an unexpected disconnect (rc # 0) the
   client makes a reconnect attempt, after a clean one (rc = 0) it makes
   none; the sensor and the heartbeat topic are subscribed on every
   successful connect. *)
C36_ConnectedIsLastCallback ==
    connected <=> (/\ broker_callback # None
                   /\ LastCallback.name = "on_connect"
                   /\ LastCallback.rc = 0)
C36_Step ==
    /\ connected' # connected
        => /\ Len(connection_status_changed') > Len(connection_status_changed)
           /\ connection_status_changed'[Len(connection_status_changed) + 1] = connected'
    /\ CallbackRuns
        => LET cb == Val(broker_callback')
           IN  /\ connect_calls' = connect_calls +
                       (IF cb.name = "on_disconnect" /\ cb.rc # 0 THEN 1 ELSE 0)
               /\ subscriptions' =
                       IF cb.name = "on_connect" /\ cb.rc = 0
                       THEN subscriptions \o
                            <<[topic |-> MQTT_TOPIC_SENSOR, qos |-> MQTT_QOS],
                              [topic |-> MQTT_TOPIC_HEARTBEAT, qos |-> MQTT_QOS]>>
                       ELSE subscriptions
C36_SessionState == []C36_ConnectedIsLastCallback /\ [][C36_Step]_vars
(* connected again after an unexpected disconnect and its reconnect *)
C36_Witness ==
    /\ connected
    /\ connect_calls = 2
    /\ Len(subscriptions) = 4
    /\ connection_status_changed = <<TRUE, FALSE, TRUE>>

====
